---- MODULE Spec2Model ----
(***************************************************************************)
(* Rank tracker for search-result pages: item filter and deduplicator,     *)
(* placement classifier, rank accumulator and the per-keyword scan         *)
(* controller, in the three variants the repository ships:                 *)
(*   "refactored"  src/amazon_search_rank_refactored.py                    *)
(*   "original"    src/amazon_search_rank.py                               *)
(*   "cloud"       src/main.py                                             *)
(* Strings are sequences of one-character strings, so that strip(),        *)
(* upper(), lower() and the substring test are computed, not assumed.      *)
(* The timestamp column of a record is left out: no rule reads it.         *)
(***************************************************************************)
EXTENDS Integers, Sequences, FiniteSets, TLC

VARIABLES site, variant, input, targets, pc, kwIdx, page, cumulative_offset,
          found_asins, kw_results, all_results, saved, scan, fn

vars == <<site, variant, input, targets, pc, kwIdx, page, cumulative_offset,
          found_asins, kw_results, all_results, saved, scan, fn>>

(***************************************************************************)
(* Bounds of the model                                                     *)
(***************************************************************************)
MaxItems == 2
MaxRows == 2
MaxCand == 3
MaxBadges == 1
MaxHints == 2

(***************************************************************************)
(* Program constants                                                       *)
(***************************************************************************)
MAX_PAGES == 3
SPONSORED_PROXIMITY_THRESHOLD == 200
DEDUP_TOLERANCE == 50
MIN_WIDTH_REFACTORED == 100
MIN_SIZE_ORIGINAL == 50
FALLBACK_MAIN_LEFT == 0
FALLBACK_MAIN_RIGHT == 2000
LABEL_TEXT_LIMIT == 50

(***************************************************************************)
(* Strings                                                                 *)
(***************************************************************************)
LowerAlpha == <<"a", "b", "c", "d", "e", "f", "g", "h", "i", "j", "k", "l", "m",
                "n", "o", "p", "q", "r", "s", "t", "u", "v", "w", "x", "y", "z">>
UpperAlpha == <<"A", "B", "C", "D", "E", "F", "G", "H", "I", "J", "K", "L", "M",
                "N", "O", "P", "Q", "R", "S", "T", "U", "V", "W", "X", "Y", "Z">>

LowerCh(c) ==
    IF \E i \in 1..26 : UpperAlpha[i] = c
    THEN LowerAlpha[CHOOSE i \in 1..26 : UpperAlpha[i] = c]
    ELSE c

UpperCh(c) ==
    IF \E i \in 1..26 : LowerAlpha[i] = c
    THEN UpperAlpha[CHOOSE i \in 1..26 : LowerAlpha[i] = c]
    ELSE c

\* str.lower()
lower(s) == [i \in 1..Len(s) |-> LowerCh(s[i])]

\* str.upper()
upper(s) == [i \in 1..Len(s) |-> UpperCh(s[i])]

IsSpace(c) == c = " "

RECURSIVE lstrip(_)
lstrip(s) == IF s # <<>> /\ IsSpace(Head(s)) THEN lstrip(Tail(s)) ELSE s

RECURSIVE rstrip(_)
rstrip(s) ==
    IF s # <<>> /\ IsSpace(s[Len(s)]) THEN rstrip(SubSeq(s, 1, Len(s) - 1)) ELSE s

\* str.strip()
strip(s) == rstrip(lstrip(s))

\* the Python test  m in s  on strings
Contains(m, s) ==
    \E i \in 1..(Len(s) - Len(m) + 1) : SubSeq(s, i, i + Len(m) - 1) = m

\* the Python truth value of a string, as in  a or b
OrStr(a, b) == IF a # <<>> THEN a ELSE b

S_sponsored == <<"s", "p", "o", "n", "s", "o", "r", "e", "d">>
S_sp_sponsored == <<"s", "p", "-", "s", "p", "o", "n", "s", "o", "r", "e", "d">>
S_Sponsored == <<"S", "p", "o", "n", "s", "o", "r", "e", "d">>
S_sponsor_ja == <<"ス", "ポ", "ン", "サ", "ー">>
S_search_result == <<"s", "-", "s", "e", "a", "r", "c", "h", "-", "r", "e", "s", "u", "l", "t">>
S_sp_result == <<"s", "p", "-", "s", "p", "o", "n", "s", "o", "r", "e", "d", "-", "r", "e", "s", "u", "l", "t">>
S_SP_Result == <<"S", "P", "-", "S", "p", "o", "n", "s", "o", "r", "e", "d", "-", "R", "e", "s", "u", "l", "t">>
S_info == <<"i", "n", "f", "o">>

\* the field value "" of a record, and a number in a field
EMPTY == <<>>
Num(n) == <<n>>
Val(f) == f[1]

Abs(n) == IF n < 0 THEN -n ELSE n

Range(s) == {s[i] : i \in 1..Len(s)}

(***************************************************************************)
(* load_targets: rows of the input list to keyword -> identifier set.      *)
(* A dict keeps insertion order: keys is the order of first insertion.     *)
(***************************************************************************)
ActiveWords == {<<"y", "e", "s">>, <<"y">>, <<"t", "r", "u", "e">>, <<"1">>}

RowAsin(row) == upper(strip(row.ASIN))
RowKeyword(row) == strip(row.TERM)
RowActive(row) == strip(lower(OrStr(row.ACTIVE, <<"y", "e", "s">>)))

RowValid(row) ==
    /\ RowActive(row) \in ActiveWords
    /\ RowAsin(row) # <<>>
    /\ RowKeyword(row) # <<>>

RECURSIVE GroupRows(_, _)
GroupRows(rows, grouped) ==
    IF rows = <<>> THEN grouped
    ELSE LET row == Head(rows)
             kw == RowKeyword(row)
         IN IF ~RowValid(row) THEN GroupRows(Tail(rows), grouped)
            ELSE IF kw \in Range(grouped.keys)
                 THEN GroupRows(Tail(rows),
                        [grouped EXCEPT !.sets =
                            [k \in DOMAIN grouped.sets |->
                                IF k = kw THEN grouped.sets[k] \cup {RowAsin(row)}
                                ELSE grouped.sets[k]]])
                 ELSE GroupRows(Tail(rows),
                        [keys |-> Append(grouped.keys, kw),
                         sets |-> [k \in (DOMAIN grouped.sets) \cup {kw} |->
                                     IF k = kw THEN {RowAsin(row)} ELSE grouped.sets[k]]])

NoTargets == [keys |-> <<>>, sets |-> [k \in {} |-> {}]]

\* the grouped dict; the caller sees ValueError when it has no key
load_targets(rows) == GroupRows(rows, NoTargets)

(***************************************************************************)
(* Placement classifier                                                    *)
(***************************************************************************)
\* BadgeLabel without the lower()
BadgeLabel_CaseSensitive(badge) == OrStr(badge.aria, badge.text)

\* badge.get_attribute("aria-label") or badge.text or ""
BadgeLabel(badge) == lower(OrStr(badge.aria, badge.text))

DirectSignal(el) ==
    LET component_type == lower(el.comp)
    IN Contains(S_sp_sponsored, component_type) \/ Contains(S_sponsored, component_type)

BadgeSignal(el) ==
    \E i \in 1..Len(el.badges) :
        \/ Contains(S_sponsored, BadgeLabel(el.badges[i]))
        \/ Contains(S_sponsor_ja, BadgeLabel(el.badges[i]))

\* ProximitySignal counting a label exactly the threshold away
ProximitySignal_Inclusive(el, label_positions) ==
    \E i \in 1..Len(label_positions) :
        Abs(label_positions[i].y - el.y) <= SPONSORED_PROXIMITY_THRESHOLD

ProximitySignal(el, label_positions) ==
    \E i \in 1..Len(label_positions) :
        Abs(label_positions[i].y - el.y) < SPONSORED_PROXIMITY_THRESHOLD

\* get_item_type(element, sponsored_label_cache), the cache being given
get_item_type(el, sponsored_label_cache) ==
    IF DirectSignal(el) THEN "Sponsored"
    ELSE IF BadgeSignal(el) THEN "Sponsored"
    ELSE IF ProximitySignal(el, sponsored_label_cache) THEN "Sponsored"
    ELSE "Organic"

\* Selenium's element.text: the rendered text, empty for a hidden element
VisibleText(lab) == IF lab.displayed THEN lab.text ELSE <<>>

\* the XPath  //*[contains(text(), 'スポンサー') or contains(text(), 'Sponsored')]
LabelXPath(labels) ==
    SelectSeq(labels, LAMBDA lab :
        Contains(S_sponsor_ja, lab.text) \/ Contains(S_Sponsored, lab.text))

Hint(lab) == [y |-> lab.y, text |-> VisibleText(lab)]

RECURSIVE MapHint(_)
MapHint(labels) ==
    IF labels = <<>> THEN <<>> ELSE <<Hint(Head(labels))>> \o MapHint(Tail(labels))

\* the label cache of the refactored process_page
label_cache_refactored(labels) ==
    MapHint(SelectSeq(LabelXPath(labels),
                LAMBDA lab : Len(VisibleText(lab)) < LABEL_TEXT_LIMIT))

\* the label cache of the original process_page
label_cache_original(labels) ==
    MapHint(SelectSeq(LabelXPath(labels),
                LAMBDA lab : /\ lab.displayed
                             /\ Len(VisibleText(lab)) < LABEL_TEXT_LIMIT
                             /\ strip(VisibleText(lab)) # <<>>))

(***************************************************************************)
(* Item filter and deduplicator                                            *)
(***************************************************************************)
\* BlankAsin without the strip()
BlankAsin_NoStrip(el) == el.asin = <<>>

\* data-asin is absent, empty or whitespace only
BlankAsin(el) == el.asin = <<>> \/ strip(el.asin) = <<>>

\* main_left, main_right of process_page, with the fallback of the except branch
MainBounds(main_slot) ==
    IF main_slot.found
    THEN [left |-> main_slot.x, right |-> main_slot.x + main_slot.width]
    ELSE [left |-> FALLBACK_MAIN_LEFT, right |-> FALLBACK_MAIN_RIGHT]

\* ItemOf keeping the case of the identifier
ItemOf_NoUpper(el) == [element |-> el, asin |-> strip(el.asin), x |-> el.x, y |-> el.y]

ItemOf(el) == [element |-> el, asin |-> upper(strip(el.asin)), x |-> el.x, y |-> el.y]

KeepRefactored(el, bounds) ==
    /\ ~BlankAsin(el)
    /\ el.displayed
    /\ ~(el.x < bounds.left \/ el.x > bounds.right)
    /\ ~(el.w < MIN_WIDTH_REFACTORED)

KeepOriginal(el) ==
    /\ ~BlankAsin(el)
    /\ el.displayed
    /\ ~(el.w < MIN_SIZE_ORIGINAL \/ el.h < MIN_SIZE_ORIGINAL)

RECURSIVE MapItem(_)
MapItem(els) == IF els = <<>> THEN <<>> ELSE <<ItemOf(Head(els))>> \o MapItem(Tail(els))

\* valid_items of the refactored process_page
valid_items_refactored(elements, main_slot) ==
    MapItem(SelectSeq(elements, LAMBDA el : KeepRefactored(el, MainBounds(main_slot))))

\* valid_items of the original process_page
valid_items_original(elements) ==
    MapItem(SelectSeq(elements, LAMBDA el : KeepOriginal(el)))

\* KeyLeq on the key (x, y)
KeyLeq_XFirst(a, b) == a.x < b.x \/ (a.x = b.x /\ a.y <= b.y)

\* the sort key (y, x) compared as Python compares tuples
KeyLeq(a, b) == a.y < b.y \/ (a.y = b.y /\ a.x <= b.x)

RECURSIVE InsertSorted(_, _)
InsertSorted(sorted, item) ==
    IF sorted = <<>> THEN <<item>>
    ELSE IF KeyLeq(Head(sorted), item)
         THEN <<Head(sorted)>> \o InsertSorted(Tail(sorted), item)
         ELSE <<item>> \o sorted

RECURSIVE SortFrom(_, _)
SortFrom(items, sorted) ==
    IF items = <<>> THEN sorted
    ELSE SortFrom(Tail(items), InsertSorted(sorted, Head(items)))

\* valid_items.sort(key=lambda k: (k['y'], k['x'])), a stable sort
SortByYX(items) == SortFrom(items, <<>>)

\* IsDup looking at the last accepted item only
IsDup_LastOnly(item, seen_positions) ==
    /\ seen_positions # <<>>
    /\ LET seen == seen_positions[Len(seen_positions)]
       IN /\ seen.asin = item.asin
          /\ Abs(seen.y - item.y) < DEDUP_TOLERANCE
          /\ Abs(seen.x - item.x) < DEDUP_TOLERANCE

IsDup(item, seen_positions) ==
    \E i \in 1..Len(seen_positions) :
        /\ seen_positions[i].asin = item.asin
        /\ Abs(seen_positions[i].y - item.y) < DEDUP_TOLERANCE
        /\ Abs(seen_positions[i].x - item.x) < DEDUP_TOLERANCE

RECURSIVE DedupFrom(_, _)
DedupFrom(items, unique_items) ==
    IF items = <<>> THEN unique_items
    ELSE IF IsDup(Head(items), unique_items)
         THEN DedupFrom(Tail(items), unique_items)
         ELSE DedupFrom(Tail(items), Append(unique_items, Head(items)))

\* Dedup keeping the last instance seen
Dedup_KeepsLast(valid_items) ==
    LET Rev(q) == [i \in 1..Len(q) |-> q[Len(q) + 1 - i]]
    IN Rev(DedupFrom(Rev(valid_items), <<>>))

\* unique_items of process_page
Dedup(valid_items) == DedupFrom(valid_items, <<>>)

(***************************************************************************)
(* Rank accumulator                                                        *)
(***************************************************************************)
Record(keyword, asin, type, pageno, rank, organic_rank) ==
    [keyword |-> keyword, asin |-> asin, type |-> type, page |-> pageno,
     rank |-> rank, organic_rank |-> organic_rank]

\* FoundRecord ranking by the position on the page alone
FoundRecord_NoOffset(keyword, asin, item_type, pageno, offset, pos, org) ==
    Record(keyword, asin, item_type, Num(pageno), Num(pos),
           IF item_type = "Organic" THEN Num(org) ELSE EMPTY)

\* FoundRecord giving every matched item an organic rank
FoundRecord_AlwaysOrganicRank(keyword, asin, item_type, pageno, offset, pos, org) ==
    Record(keyword, asin, item_type, Num(pageno), Num(offset + pos), Num(offset + org))

\* FoundRecord counting the organic rank on from the overall rank
FoundRecord_OrganicOverRank(keyword, asin, item_type, pageno, offset, pos, org) ==
    Record(keyword, asin, item_type, Num(pageno), Num(offset + pos),
           IF item_type = "Organic" THEN Num(offset + pos + org) ELSE EMPTY)

\* the record of one matched item
FoundRecord(keyword, asin, item_type, pageno, offset, pos, org) ==
    Record(keyword, asin, item_type, Num(pageno),
           Num(offset + pos),
           IF item_type = "Organic" THEN Num(offset + org)
           ELSE EMPTY)

\* the loop over unique_items; types[i] is the placement of unique_items[i]
RECURSIVE RankItems(_, _, _, _, _, _, _)
RankItems(asins, types, keyword, pageno, target_asins, offset, acc) ==
    IF asins = <<>> THEN acc
    ELSE LET position_counter == acc.position_counter + 1
             item_type == Head(types)
             organic_counter == IF item_type = "Organic"
                                THEN acc.organic_counter + 1
                                ELSE acc.organic_counter
             results == IF Head(asins) \in target_asins
                        THEN Append(acc.results,
                                FoundRecord(keyword, Head(asins), item_type, pageno,
                                            offset, position_counter,
                                            organic_counter))
                        ELSE acc.results
         IN RankItems(Tail(asins), Tail(types), keyword, pageno, target_asins,
                      offset,
                      [results |-> results, position_counter |-> position_counter,
                       organic_counter |-> organic_counter])

RankStart == [results |-> <<>>, position_counter |-> 0, organic_counter |-> 0]

AsinsOf(items) == [i \in 1..Len(items) |-> items[i].asin]

\* unique_items of one page, by variant
unique_items_refactored(snap) ==
    Dedup(SortByYX(valid_items_refactored(snap.elements, snap.main_slot)))

unique_items_original(snap) ==
    Dedup(SortByYX(valid_items_original(snap.elements)))

\* the items of a page in rank order with their placements, as the refactored
\* process_page sees them
page_items_refactored(snap) ==
    LET cache == label_cache_refactored(snap.labels)
        unique_items == unique_items_refactored(snap)
    IN [asins |-> AsinsOf(unique_items),
        types |-> [i \in 1..Len(unique_items) |->
                      get_item_type(unique_items[i].element, cache)]]

\* the same for the original process_page
page_items_original(snap) ==
    LET cache == label_cache_original(snap.labels)
        unique_items == unique_items_original(snap)
    IN [asins |-> AsinsOf(unique_items),
        types |-> [i \in 1..Len(unique_items) |->
                      get_item_type(unique_items[i].element, cache)]]

\* process_page_refactored returning the count of the page as the new offset
process_page_refactored_PageCount(items, keyword, pageno, target_asins, offset) ==
    LET out == RankItems(items.asins, items.types, keyword, pageno,
                         target_asins, offset, RankStart)
    IN [results |-> out.results, offset |-> out.position_counter]

\* process_page of the refactored variant returns (results, new_offset)
process_page_refactored(items, keyword, pageno, target_asins, offset) ==
    LET out == RankItems(items.asins, items.types, keyword, pageno,
                         target_asins, offset, RankStart)
    IN [results |-> out.results, offset |-> offset + out.position_counter]

\* process_page advancing the offset only by pages with a match
process_page_OnlyWhenFound(items, keyword, pageno, target_asins, offset) ==
    LET out == RankItems(items.asins, items.types, keyword, pageno,
                         target_asins, offset, RankStart)
    IN [results |-> out.results,
        offset |-> IF out.results = <<>> THEN offset
                   ELSE offset + out.position_counter]

\* process_page of the original variant returns (results, items_on_page);
\* main adds items_on_page to cumulative_offset
process_page(items, keyword, pageno, target_asins, offset) ==
    LET out == RankItems(items.asins, items.types, keyword, pageno,
                         target_asins, offset, RankStart)
    IN [results |-> out.results, offset |-> offset + out.position_counter]

(***************************************************************************)
(* The HTML variant (main.py)                                              *)
(***************************************************************************)
RECURSIVE JoinBadgeText(_)
JoinBadgeText(badges) ==
    IF badges = <<>> THEN <<>>
    ELSE <<" ">> \o Head(badges).text \o JoinBadgeText(Tail(badges))

\* item.get_text(separator=" ")
get_text(el) == el.text \o JoinBadgeText(el.badges)

is_sponsored_bs4(el) ==
    \/ Contains(S_sponsor_ja, get_text(el))
    \/ Contains(S_Sponsored, get_text(el))
    \/ \E i \in 1..Len(el.badges) :
          \/ Contains(S_sponsored, lower(el.badges[i].aria))
          \/ Contains(S_sponsor_ja, el.badges[i].aria)

item_type_bs4(el) == IF is_sponsored_bs4(el) THEN "Sponsored Product" ELSE "Organic"

\* soup.select("div[data-component-type='s-search-result']") without blank data-asin
items_bs4(elements) ==
    SelectSeq(SelectSeq(elements, LAMBDA el : el.comp = S_search_result),
              LAMBDA el : ~BlankAsin(el))

\* the items of a page in document order with their placements
page_items_bs4(snap) ==
    LET items == items_bs4(snap.elements)
    IN [asins |-> [i \in 1..Len(items) |-> upper(strip(items[i].asin))],
        types |-> [i \in 1..Len(items) |-> item_type_bs4(items[i])]]

\* parse_page_bs4 returns (results, position_counter); amazon_rank_tracker adds
\* position_counter to cumulative_offset
parse_page_bs4(items, keyword, pageno, target_asins, offset) ==
    LET out == RankItems(items.asins, items.types, keyword, pageno,
                         target_asins, offset, RankStart)
    IN [results |-> out.results, offset |-> offset + out.position_counter]

Variants == {"refactored", "original", "cloud"}

\* what a snapshot presents to the rank loop of variant v
PageItems(v, snap) ==
    CASE v = "refactored" -> page_items_refactored(snap)
      [] v = "original" -> page_items_original(snap)
      [] OTHER -> page_items_bs4(snap)

\* the page step of variant v: the records of the page and the offset after it
PageStep(v, items, keyword, pageno, target_asins, offset) ==
    CASE v = "refactored" ->
            process_page_refactored(items, keyword, pageno, target_asins, offset)
      [] v = "original" -> process_page(items, keyword, pageno, target_asins, offset)
      [] OTHER -> parse_page_bs4(items, keyword, pageno, target_asins, offset)

(***************************************************************************)
(* Inputs of a run: the rows of the input list and the page snapshots      *)
(***************************************************************************)
Row(asin, term, active) == [ASIN |-> asin, TERM |-> term, ACTIVE |-> active]

RowPool == << Row(<<" ", "a">>, <<"k", "1">>, <<>>),
              Row(<<"B">>, <<"k", "1", " ">>, <<"Y">>),
              Row(<<"A">>, <<"k", "2">>, <<"n", "o">>) >>

\* the subsequences of pool with at most n elements, in pool order
RECURSIVE SubSeqs(_, _)
SubSeqs(pool, n) ==
    IF pool = <<>> \/ n = 0 THEN {<<>>}
    ELSE SubSeqs(Tail(pool), n)
         \cup {<<Head(pool)>> \o t : t \in SubSeqs(Tail(pool), n - 1)}

InputFiles == SubSeqs(RowPool, MaxRows)

El(asin, displayed, x, y, w, h, comp, badges, text) ==
    [asin |-> asin, displayed |-> displayed, x |-> x, y |-> y, w |-> w, h |-> h,
     comp |-> comp, badges |-> badges, text |-> text]

Badge(aria, text) == [aria |-> aria, text |-> text]

ElementPool ==
    << El(<<" ", "a">>, TRUE, 0, 0, 300, 300, S_search_result, <<>>, S_info),
       El(<<"a">>, TRUE, 10, 10, 280, 280, <<>>, <<>>, S_info),
       El(<<"A">>, TRUE, 400, 0, 300, 300, S_search_result,
          <<Badge(<<>>, S_sponsor_ja)>>, S_info),
       El(<<"B">>, TRUE, 0, 400, 300, 300, S_search_result, <<>>, S_info),
       El(<<"C">>, TRUE, 400, 400, 300, 300, S_SP_Result, <<>>, S_info),
       El(<<" ">>, TRUE, 800, 0, 300, 300, S_search_result, <<>>, S_info) >>

LabelEl(y, text, displayed) == [y |-> y, text |-> text, displayed |-> displayed]

LabelLists == {<<>>, <<LabelEl(500, S_Sponsored, TRUE)>>}

MainSlots == {[found |-> TRUE, x |-> 0, width |-> 1500],
              [found |-> FALSE, x |-> 0, width |-> 0]}

\* the snapshots a results page can present
Snapshots ==
    {[elements |-> els, labels |-> labs, main_slot |-> ms] :
        els \in SubSeqs(ElementPool, MaxItems), labs \in LabelLists, ms \in MainSlots}

\* a run of two keywords meets a site with fewer pages
RunElementPool ==
    << El(<<" ", "a">>, TRUE, 0, 0, 300, 300, S_search_result, <<>>, S_info),
       El(<<"B">>, TRUE, 0, 400, 300, 300, S_search_result,
          <<Badge(S_Sponsored, <<>>)>>, S_info) >>

RunSnapshots ==
    {[elements |-> els, labels |-> <<>>, main_slot |-> [found |-> TRUE, x |-> 0, width |-> 1500]] :
        els \in SubSeqs(RunElementPool, MaxItems)}

Sites == {"catalogue", "shelf"}

SiteSnapshots == [s \in Sites |-> IF s = "catalogue" THEN Snapshots ELSE RunSnapshots]

\* what the snapshots of a site present to the rank loop, by variant
Presented ==
    [s \in Sites |-> [v \in Variants |-> {PageItems(v, snap) : snap \in SiteSnapshots[s]}]]

(***************************************************************************)
(* Scan controller                                                         *)
(***************************************************************************)
Selenium == variant \in {"refactored", "original"}

Keyword == targets.keys[kwIdx]
TargetAsins == targets.sets[Keyword]

\* the bookkeeping of one keyword scan, kept beside the program's variables:
\* what the pages presented, not what the program computed from it
NoScan == [seen |-> 0, organic |-> 0, enc |-> <<>>, appeared |-> {},
           pagesDone |-> <<>>, ctl |-> <<>>, navs |-> 0, path |-> "none",
           ended |-> <<>>]

NoFn == [op |-> "none"]

\* how the keyword scans before the next one ended
Ended == IF kwIdx = 0 THEN <<>> ELSE Append(scan.ended, scan.path)

Init ==
    /\ site = "catalogue"
    /\ variant \in Variants
    /\ input \in InputFiles
    /\ targets = NoTargets
    /\ pc = "START"
    /\ kwIdx = 0
    /\ page = 0
    /\ cumulative_offset = 0
    /\ found_asins = {}
    /\ kw_results = <<>>
    /\ all_results = <<>>
    /\ saved = <<>>
    /\ scan = NoScan
    /\ fn = NoFn

\* load_targets returned a non-empty dict, or load_targets_from_gcs any dict
LoadTargets ==
    /\ pc = "START"
    /\ (load_targets(input).keys # <<>> \/ variant = "cloud")
    /\ targets' = load_targets(input)
    /\ pc' = "LOOP"
    /\ UNCHANGED <<site, variant, input, kwIdx, page, cumulative_offset, found_asins,
                   kw_results, all_results, saved, scan, fn>>

\* load_targets raised ValueError: sys.exit(1)
LoadTargetsFails ==
    /\ pc = "START"
    /\ Selenium
    /\ load_targets(input).keys = <<>>
    /\ pc' = "EXIT_FATAL"
    /\ UNCHANGED <<site, variant, input, targets, kwIdx, page, cumulative_offset,
                   found_asins, kw_results, all_results, saved, scan, fn>>

\* BeginKeyword carrying the offset of the keyword before
BeginKeyword_KeepsOffset ==
    /\ pc = "LOOP"
    /\ kwIdx < Len(targets.keys)
    /\ kwIdx' = kwIdx + 1
    /\ page' = 1
    /\ cumulative_offset' = cumulative_offset
    /\ found_asins' = {}
    /\ kw_results' = <<>>
    /\ scan' = [NoScan EXCEPT !.ended = Ended]
    /\ pc' = "SEARCHING"
    /\ UNCHANGED <<site, variant, input, targets, all_results, saved, fn>>

\* the next keyword is taken and its search submitted
BeginKeyword ==
    /\ pc = "LOOP"
    /\ kwIdx < Len(targets.keys)
    /\ kwIdx' = kwIdx + 1
    /\ page' = 1
    /\ cumulative_offset' = 0
    /\ found_asins' = {}
    /\ kw_results' = <<>>
    /\ scan' = [NoScan EXCEPT !.ended = Ended]
    /\ pc' = "SEARCHING"
    /\ UNCHANGED <<site, variant, input, targets, all_results, saved, fn>>

\* the search box did not appear: return [] / continue
SearchBoxTimeout ==
    /\ pc = "LOOP"
    /\ Selenium
    /\ kwIdx < Len(targets.keys)
    /\ kwIdx' = kwIdx + 1
    /\ page' = 0
    /\ cumulative_offset' = 0
    /\ found_asins' = {}
    /\ kw_results' = <<>>
    /\ scan' = [NoScan EXCEPT !.path = "search_box", !.ended = Ended]
    /\ pc' = "COMPLETE"
    /\ UNCHANGED <<site, variant, input, targets, all_results, saved, fn>>

\* wait_for_results / fetch_page_html returned
WaitForResults ==
    /\ pc = "SEARCHING"
    /\ pc' = "SCANNING_PAGE"
    /\ UNCHANGED <<site, variant, input, targets, kwIdx, page, cumulative_offset,
                   found_asins, kw_results, all_results, saved, scan, fn>>

\* ResultsTimeout ending the run
ResultsTimeout_Aborts ==
    /\ pc = "SEARCHING"
    /\ pc' = "EXIT_FATAL"
    /\ scan' = [scan EXCEPT !.path = "snapshot_timeout"]
    /\ UNCHANGED <<site, variant, input, targets, kwIdx, page, cumulative_offset,
                   found_asins, kw_results, all_results, saved, fn>>

\* wait_for_results timed out / fetch_page_html raised: break
ResultsTimeout ==
    /\ pc = "SEARCHING"
    /\ pc' = "DONE"
    /\ scan' = [scan EXCEPT !.path = "snapshot_timeout"]
    /\ UNCHANGED <<site, variant, input, targets, kwIdx, page, cumulative_offset,
                   found_asins, kw_results, all_results, saved, fn>>

\* the bookkeeping after a page that presented the placements types of asins
Encounters(asins, types, target_asins, pageno, seen, organic) ==
    LET Org(i) == Cardinality({j \in 1..i : types[j] = "Organic"})
        idx == SelectSeq([i \in 1..Len(asins) |-> i],
                         LAMBDA i : asins[i] \in target_asins)
    IN [k \in 1..Len(idx) |->
          [asin |-> asins[idx[k]], type |-> types[idx[k]], page |-> pageno,
           pos |-> idx[k], nth |-> seen + idx[k],
           organic_nth |-> organic + Org(idx[k]),
           organic_before |-> organic]]

ScanAfter(items) ==
    [scan EXCEPT
        !.seen = @ + Len(items.asins),
        !.organic = @ + Cardinality({j \in 1..Len(items.types) :
                                        items.types[j] = "Organic"}),
        !.enc = @ \o Encounters(items.asins, items.types, TargetAsins, page,
                                scan.seen, scan.organic),
        !.appeared = @ \cup Range(items.asins),
        !.pagesDone = Append(@, page)]

\* ProcessPage going on to the pagination step whatever was found
ProcessPage_NoEarlyExit ==
    /\ pc = "SCANNING_PAGE"
    /\ \E items \in Presented[site][variant] :
         LET out == PageStep(variant, items, Keyword, page, TargetAsins,
                             cumulative_offset)
             found == found_asins \cup {out.results[i].asin : i \in 1..Len(out.results)}
         IN /\ cumulative_offset' = out.offset
            /\ IF variant = "refactored"
               THEN /\ kw_results' = kw_results \o out.results
                    /\ found_asins' = found
                    /\ all_results' = all_results
               ELSE /\ all_results' = all_results \o out.results
                    /\ UNCHANGED <<kw_results, found_asins>>
            /\ pc' = "NEXT_PAGE"
            /\ scan' = ScanAfter(items)
    /\ UNCHANGED <<site, variant, input, targets, kwIdx, page, saved, fn>>

\* one page is filtered, classified and ranked
ProcessPage ==
    /\ pc = "SCANNING_PAGE"
    /\ \E items \in Presented[site][variant] :
         LET out == PageStep(variant, items, Keyword, page, TargetAsins,
                             cumulative_offset)
             found == found_asins \cup {out.results[i].asin : i \in 1..Len(out.results)}
         IN /\ cumulative_offset' = out.offset
            /\ IF variant = "refactored"
               THEN /\ kw_results' = kw_results \o out.results
                    /\ found_asins' = found
                    /\ all_results' = all_results
                    /\ pc' = IF found = TargetAsins THEN "DONE" ELSE "NEXT_PAGE"
                    /\ scan' = [ScanAfter(items) EXCEPT
                                  !.path = IF found = TargetAsins THEN "all_found" ELSE @]
               ELSE /\ all_results' = all_results \o out.results
                    /\ UNCHANGED <<kw_results, found_asins>>
                    /\ pc' = "NEXT_PAGE"
                    /\ scan' = ScanAfter(items)
    /\ UNCHANGED <<site, variant, input, targets, kwIdx, page, saved, fn>>

\* ProcessPageRaises going on to the pagination step
ProcessPageRaises_GoesOn ==
    /\ pc = "SCANNING_PAGE"
    /\ pc' = IF variant = "refactored" THEN "EXIT_FATAL" ELSE "NEXT_PAGE"
    /\ scan' = [scan EXCEPT !.path = "page_error"]
    /\ UNCHANGED <<site, variant, input, targets, kwIdx, page, cumulative_offset,
                   found_asins, kw_results, all_results, saved, fn>>

\* process_page / parse_page_bs4 raised
ProcessPageRaises ==
    /\ pc = "SCANNING_PAGE"
    /\ pc' = IF variant = "refactored" THEN "EXIT_FATAL" ELSE "DONE"
    /\ scan' = [scan EXCEPT !.path = "page_error"]
    /\ UNCHANGED <<site, variant, input, targets, kwIdx, page, cumulative_offset,
                   found_asins, kw_results, all_results, saved, fn>>

NextControls == {"absent", "disabled", "enabled"}

\* Paginate clicking a disabled next-page control
Paginate_ClicksDisabled ==
    /\ pc = "NEXT_PAGE"
    /\ IF page < MAX_PAGES
       THEN IF Selenium
            THEN \E ctl \in NextControls :
                    /\ scan' = [scan EXCEPT
                                  !.ctl = Append(@, ctl),
                                  !.navs = IF ctl # "absent" THEN @ + 1 ELSE @,
                                  !.path = IF ctl # "absent" THEN @ ELSE "no_next"]
                    /\ pc' = IF ctl # "absent" THEN "SEARCHING" ELSE "DONE"
                    /\ page' = IF ctl # "absent" THEN page + 1 ELSE page
            ELSE /\ scan' = [scan EXCEPT !.ctl = Append(@, "none"), !.navs = @ + 1]
                 /\ pc' = "SEARCHING"
                 /\ page' = page + 1
       ELSE /\ scan' = [scan EXCEPT !.ctl = Append(@, "unread"), !.path = "page_limit"]
            /\ pc' = "DONE"
            /\ page' = page
    /\ UNCHANGED <<site, variant, input, targets, kwIdx, cumulative_offset, found_asins,
                   kw_results, all_results, saved, fn>>

\* Paginate without the page limit
Paginate_NoPageLimit ==
    /\ pc = "NEXT_PAGE"
    /\ IF Selenium
       THEN \E ctl \in NextControls :
               /\ scan' = [scan EXCEPT
                             !.ctl = Append(@, ctl),
                             !.navs = IF ctl = "enabled" THEN @ + 1 ELSE @,
                             !.path = IF ctl = "enabled" THEN @ ELSE "no_next"]
               /\ pc' = IF ctl = "enabled" THEN "SEARCHING" ELSE "DONE"
               /\ page' = IF ctl = "enabled" THEN page + 1 ELSE page
       ELSE /\ scan' = [scan EXCEPT !.ctl = Append(@, "none"), !.navs = @ + 1]
            /\ pc' = "SEARCHING"
            /\ page' = page + 1
    /\ UNCHANGED <<site, variant, input, targets, kwIdx, cumulative_offset, found_asins,
                   kw_results, all_results, saved, fn>>

\* the pagination step after a page
Paginate ==
    /\ pc = "NEXT_PAGE"
    /\ IF page < MAX_PAGES
       THEN IF Selenium
            THEN \E ctl \in NextControls :
                    /\ scan' = [scan EXCEPT
                                  !.ctl = Append(@, ctl),
                                  !.navs = IF ctl = "enabled" THEN @ + 1 ELSE @,
                                  !.path = IF ctl = "enabled" THEN @ ELSE "no_next"]
                    /\ pc' = IF ctl = "enabled" THEN "SEARCHING" ELSE "DONE"
                    /\ page' = IF ctl = "enabled" THEN page + 1 ELSE page
            ELSE /\ scan' = [scan EXCEPT !.ctl = Append(@, "none"), !.navs = @ + 1]
                 /\ pc' = "SEARCHING"
                 /\ page' = page + 1
       ELSE /\ scan' = [scan EXCEPT !.ctl = Append(@, "unread"), !.path = "page_limit"]
            /\ pc' = "DONE"
            /\ page' = page
    /\ UNCHANGED <<site, variant, input, targets, kwIdx, cumulative_offset, found_asins,
                   kw_results, all_results, saved, fn>>

\* the click on the next-page control raised
NavigateFails ==
    /\ pc = "NEXT_PAGE"
    /\ Selenium
    /\ page < MAX_PAGES
    /\ pc' = IF variant = "refactored" THEN "EXIT_FATAL" ELSE "DONE"
    /\ scan' = [scan EXCEPT !.ctl = Append(@, "error"), !.path = "nav_error"]
    /\ UNCHANGED <<site, variant, input, targets, kwIdx, page, cumulative_offset,
                   found_asins, kw_results, all_results, saved, fn>>

CharOrder == <<" ", "-", "0", "1", "2", "3", "4", "5", "6", "7", "8", "9">>
                 \o UpperAlpha \o LowerAlpha

CharCode(c) == CHOOSE i \in 1..Len(CharOrder) : CharOrder[i] = c

RECURSIVE StrLess(_, _)
StrLess(a, b) ==
    IF b = <<>> THEN FALSE
    ELSE IF a = <<>> THEN TRUE
    ELSE IF Head(a) = Head(b) THEN StrLess(Tail(a), Tail(b))
    ELSE CharCode(Head(a)) < CharCode(Head(b))

\* sorted(set of strings)
RECURSIVE SortedStrs(_)
SortedStrs(S) ==
    IF S = {} THEN <<>>
    ELSE LET m == CHOOSE a \in S : \A b \in S \ {a} : StrLess(a, b)
         IN <<m>> \o SortedStrs(S \ {m})

\* NotFoundRecord with the rank 0
NotFoundRecord_RankZero(keyword, asin) == Record(keyword, asin, "", EMPTY, Num(0), EMPTY)

NotFoundRecord(keyword, asin) == Record(keyword, asin, "", EMPTY, EMPTY, EMPTY)

\* the not_found rows of search_keyword
not_found_records(keyword, target_asins, found) ==
    LET order == SortedStrs(target_asins \ found)
    IN [i \in 1..Len(order) |-> NotFoundRecord(keyword, order[i])]

\* the page loop is left: search_keyword records the identifiers not found and
\* returns; the other variants go on to the next keyword
EmitNotFound ==
    /\ pc = "DONE"
    /\ IF variant = "refactored"
       THEN /\ kw_results' = <<>>
            /\ all_results' = all_results \o kw_results
                                \o not_found_records(Keyword, TargetAsins, found_asins)
       ELSE UNCHANGED <<kw_results, all_results>>
    /\ pc' = "COMPLETE"
    /\ UNCHANGED <<site, variant, input, targets, kwIdx, page, cumulative_offset,
                   found_asins, saved, scan, fn>>

\* NextKeyword writing the records collected so far
NextKeyword_SavesBatch ==
    /\ pc = "COMPLETE"
    /\ pc' = "LOOP"
    /\ saved' = IF all_results # <<>> THEN Append(saved, all_results) ELSE saved
    /\ UNCHANGED <<site, variant, input, targets, kwIdx, page, cumulative_offset,
                   found_asins, kw_results, all_results, scan, fn>>

\* back to the head of the keyword loop
NextKeyword ==
    /\ pc = "COMPLETE"
    /\ pc' = "LOOP"
    /\ UNCHANGED <<site, variant, input, targets, kwIdx, page, cumulative_offset,
                   found_asins, kw_results, all_results, saved, scan, fn>>

\* after the last keyword: the output is written when there is a record
SaveResults ==
    /\ pc = "LOOP"
    /\ kwIdx = Len(targets.keys)
    /\ saved' = IF all_results # <<>> THEN Append(saved, all_results) ELSE saved
    /\ pc' = "EXIT_OK"
    /\ UNCHANGED <<site, variant, input, targets, kwIdx, page, cumulative_offset,
                   found_asins, kw_results, all_results, scan, fn>>

Next ==
    \/ LoadTargets
    \/ LoadTargetsFails
    \/ BeginKeyword
    \/ SearchBoxTimeout
    \/ WaitForResults
    \/ ResultsTimeout
    \/ ProcessPage
    \/ ProcessPageRaises
    \/ Paginate
    \/ NavigateFails
    \/ EmitNotFound
    \/ NextKeyword
    \/ SaveResults

Spec == Init /\ [][Next]_vars

TypeOK ==
    /\ pc \in {"START", "LOOP", "SEARCHING", "SCANNING_PAGE", "NEXT_PAGE", "DONE",
               "COMPLETE", "EXIT_OK", "EXIT_FATAL"}
    /\ page \in 0..MAX_PAGES
    /\ cumulative_offset \in Nat

(***************************************************************************)
(* The records of the keyword scan in progress                             *)
(***************************************************************************)
IsFound(r) == r.rank # EMPTY

ScanRecords ==
    IF kwIdx = 0 THEN <<>>
    ELSE SelectSeq(all_results \o kw_results, LAMBDA r : r.keyword = Keyword)

FoundRecords == SelectSeq(ScanRecords, IsFound)

NotFoundRecords == SelectSeq(ScanRecords, LAMBDA r : ~IsFound(r))

ScanOver == pc \in {"COMPLETE", "LOOP", "EXIT_OK"} /\ kwIdx > 0

\* C1: every target item a page presents has a found record, in encounter
\* order, whose overall rank is the number of deduplicated items presented so
\* far in the scan, this item included (offset carried in + position on page)
C1_OverallRank ==
    /\ Len(FoundRecords) = Len(scan.enc)
    /\ \A i \in 1..Len(scan.enc) :
         /\ FoundRecords[i].asin = scan.enc[i].asin
         /\ FoundRecords[i].page = Num(scan.enc[i].page)
         /\ FoundRecords[i].rank = Num(scan.enc[i].nth)

C1_Witness ==
    \E i \in 1..Len(scan.enc) :
        /\ scan.enc[i].page = 3
        /\ scan.enc[i].pos = 2
        /\ scan.enc[i].nth = 5
        /\ Len(FoundRecords) >= i
        /\ FoundRecords[i].rank = Num(5)

\* C2: the organic rank of an organic match is the number of organic items
\* presented so far in the scan, this item included
C2_OrganicRank ==
    \A i \in 1..Len(scan.enc) :
        (i <= Len(FoundRecords) /\ scan.enc[i].type = "Organic")
            => FoundRecords[i].organic_rank = Num(scan.enc[i].organic_nth)

\* C3: after a keyword scan no identifier has two found records
C3_AtMostOneFound ==
    ScanOver =>
        \A i, j \in 1..Len(FoundRecords) :
            FoundRecords[i].asin = FoundRecords[j].asin => i = j

\* C4: after a keyword scan a target that no scanned page presented has exactly
\* one not_found record
C4_ExactlyOneNotFound ==
    ScanOver =>
        \A a \in TargetAsins \ scan.appeared :
            Cardinality({i \in 1..Len(NotFoundRecords) : NotFoundRecords[i].asin = a}) = 1

\* C5: after a keyword scan, whatever path ended it, every target has a record
\* and no target has both a found and a not_found record
C5_EveryTargetRecorded ==
    ScanOver =>
        \A a \in TargetAsins :
            /\ \E i \in 1..Len(ScanRecords) : ScanRecords[i].asin = a
            /\ ~(/\ \E i \in 1..Len(FoundRecords) : FoundRecords[i].asin = a
                 /\ \E i \in 1..Len(NotFoundRecords) : NotFoundRecords[i].asin = a)

OrganicFound == SelectSeq(FoundRecords, LAMBDA r : r.type = "Organic")

\* C6: in encounter order the overall ranks of the found records are strictly
\* increasing, and so are the organic ranks of the organic ones
C6_RanksIncrease ==
    /\ \A i, j \in 1..Len(FoundRecords) :
          i < j => Val(FoundRecords[i].rank) < Val(FoundRecords[j].rank)
    /\ \A i, j \in 1..Len(OrganicFound) :
          i < j => Val(OrganicFound[i].organic_rank) < Val(OrganicFound[j].organic_rank)

C6_Witness ==
    /\ Len(OrganicFound) >= 3
    /\ OrganicFound[1].page = Num(1)
    /\ OrganicFound[3].page = Num(3)
    /\ Len(FoundRecords) > Len(OrganicFound)

FoundBy(p) ==
    TargetAsins \subseteq {scan.enc[i].asin : i \in {j \in 1..Len(scan.enc) :
                                                        scan.enc[j].page <= p}}

\* page p is the last page processed, nothing was navigated to after it and
\* the page loop is left
StoppedAt(p) ==
    /\ Len(scan.pagesDone) = p
    /\ scan.navs = p - 1
    /\ Len(scan.ctl) = p - 1
    /\ pc \notin {"SEARCHING", "SCANNING_PAGE", "NEXT_PAGE", "EXIT_FATAL"}

\* C11 (as stated): once page p is processed and every target was presented
\* by the pages 1..p, the scan has stopped at p: no next-page control read, no
\* navigation, no later page
C11_EarlyExit ==
    \A p \in 1..Len(scan.pagesDone) : FoundBy(p) => StoppedAt(p)

\* C11 (amended): the same, for search_keyword of the refactored variant
C11_EarlyExitRefactored ==
    variant = "refactored" => C11_EarlyExit

C11_Witness ==
    /\ variant = "refactored"
    /\ kwIdx > 0
    /\ Cardinality(TargetAsins) = 2
    /\ scan.pagesDone = <<1, 2>>
    /\ ~FoundBy(1)
    /\ FoundBy(2)
    /\ page < MAX_PAGES
    /\ pc = "DONE"

\* C15: the overall offset of a keyword scan is the number of deduplicated
\* items of the pages processed so far (0 before the first page), whether or
\* not a target was found, and no step within the scan lowers it
C15_OffsetIsItemsSoFar ==
    /\ [](cumulative_offset = scan.seen)
    /\ [](scan.pagesDone = <<>> => cumulative_offset = 0)
    /\ [][kwIdx' = kwIdx => cumulative_offset' >= cumulative_offset]_vars

C15_Witness ==
    /\ scan.pagesDone = <<1, 2, 3>>
    /\ cumulative_offset = 3 * MaxItems
    /\ FoundRecords = <<>>

\* C16: a found record has the placement its item was classified with and an
\* overall rank; it has an organic rank exactly when that placement is organic
C16_OrganicRankIffOrganic ==
    \A i \in 1..Len(FoundRecords) :
        /\ FoundRecords[i].rank # EMPTY
        /\ i <= Len(scan.enc) => FoundRecords[i].type = scan.enc[i].type
        /\ FoundRecords[i].organic_rank # EMPTY <=> FoundRecords[i].type = "Organic"

C16_Witness ==
    \E i, j \in 1..Len(FoundRecords) :
        /\ FoundRecords[i].type = "Organic"
        /\ FoundRecords[i].organic_rank # EMPTY
        /\ FoundRecords[j].type \notin {"Organic", ""}
        /\ FoundRecords[j].organic_rank = EMPTY
        /\ FoundRecords[j].rank # EMPTY
        /\ FoundRecords[i].page = FoundRecords[j].page

\* C23: a record with a rank has an overall rank of at least 1, a placement
\* and, if it has an organic rank, one of at least 1; a record without a rank
\* has no placement, no page and no organic rank; no record has the rank 0
C23_RanksOneBased ==
    \A i \in 1..Len(all_results \o kw_results) :
        LET r == (all_results \o kw_results)[i]
        IN IF r.rank # EMPTY
           THEN /\ Val(r.rank) >= 1
                /\ r.type # ""
                /\ r.page # EMPTY
                /\ r.organic_rank # EMPTY => Val(r.organic_rank) >= 1
           ELSE /\ r.type = ""
                /\ r.page = EMPTY
                /\ r.organic_rank = EMPTY

C23_Witness ==
    /\ Len(all_results) = 2
    /\ all_results[1].rank = Num(1)
    /\ all_results[1].organic_rank = Num(1)
    /\ all_results[2].rank = EMPTY
    /\ all_results[2].asin # all_results[1].asin

\* C30: the organic rank of an organic found record lies between 1 and its
\* overall rank, on every page and whatever the mix of placements; every found
\* record is of a target of its keyword, and so is every found identifier
C30_OrganicWithinOverall ==
    /\ \A i \in 1..Len(all_results \o kw_results) :
          LET r == (all_results \o kw_results)[i]
          IN IsFound(r) =>
                /\ r.asin \in targets.sets[r.keyword]
                /\ r.type = "Organic" =>
                      /\ r.organic_rank # EMPTY
                      /\ 1 <= Val(r.organic_rank)
                      /\ Val(r.organic_rank) <= Val(r.rank)
    /\ kwIdx > 0 => found_asins \subseteq TargetAsins

C30_Witness ==
    \E i, j \in 1..Len(FoundRecords) :
        /\ FoundRecords[i].type = "Organic"
        /\ FoundRecords[i].page = Num(2)
        /\ Val(FoundRecords[i].organic_rank) < Val(FoundRecords[i].rank)
        /\ FoundRecords[j].type \notin {"Organic", ""}
        /\ FoundRecords[j].page = Num(2)
        /\ Len(scan.enc) < scan.seen

\* C14: when the input list holds no valid target the run ends in the fatal
\* exit straight after loading: no keyword is taken and no page is scanned
C14_NoTargetsIsFatal ==
    (pc # "START" /\ load_targets(input).keys = <<>>)
        => /\ pc = "EXIT_FATAL"
           /\ kwIdx = 0
           /\ scan = NoScan

(***************************************************************************)
(* A run over two keywords                                                 *)
(***************************************************************************)
RunRowPool == << Row(<<" ", "a">>, <<"k", "1">>, <<>>),
                 Row(<<"B">>, <<"k", "1", " ">>, <<"Y">>),
                 Row(<<"b">>, <<"k", "2">>, <<"y", "e", "s">>) >>

RunInputFiles == SubSeqs(RunRowPool, MaxRows)

InitRun ==
    /\ site = "shelf"
    /\ variant \in Variants
    /\ input \in RunInputFiles
    /\ targets = NoTargets
    /\ pc = "START"
    /\ kwIdx = 0
    /\ page = 0
    /\ cumulative_offset = 0
    /\ found_asins = {}
    /\ kw_results = <<>>
    /\ all_results = <<>>
    /\ saved = <<>>
    /\ scan = NoScan
    /\ fn = NoFn

SpecRun == InitRun /\ [][Next]_vars

\* the records of the run so far
RunRecords == all_results \o kw_results

\* the step on which the results of a page do not arrive
TimeoutStep == pc = "SEARCHING" /\ pc' = "DONE"

\* C12: when the results of page p do not arrive the page loop is left with
\* the pages 1..p-1 processed, as after a page without next page: every record
\* is kept, the found records of the earlier pages are there, the run is not
\* aborted, and it ends only after every keyword was taken
C12_TimeoutEndsKeywordOnly ==
    /\ [](scan.path = "snapshot_timeout"
            => /\ pc \in {"DONE", "COMPLETE", "LOOP", "EXIT_OK"}
               /\ Len(scan.pagesDone) = page - 1
               /\ scan.navs = page - 1
               /\ C1_OverallRank)
    /\ [](pc = "EXIT_OK" => kwIdx = Len(targets.keys))
    /\ [][TimeoutStep => /\ RunRecords' = RunRecords
                         /\ saved' = saved
                         /\ kwIdx' = kwIdx
                         /\ page' = page]_vars

C12_Witness ==
    /\ kwIdx = 2
    /\ scan.ended = <<"snapshot_timeout">>
    /\ \E i \in 1..Len(RunRecords) :
          /\ RunRecords[i].keyword = targets.keys[1]
          /\ RunRecords[i].page = Num(1)
    /\ scan.pagesDone # <<>>
    /\ FoundRecords # <<>>

\* C24: a keyword scan starts with the offset 0 and no identifier found, and
\* its found records are given by what the pages of this scan presented
\* alone, whatever keywords were scanned before
C24_ScanUsesOwnStateOnly ==
    kwIdx > 0 =>
        /\ scan.pagesDone = <<>> =>
              /\ cumulative_offset = 0
              /\ found_asins = {}
              /\ kw_results = <<>>
        /\ variant = "refactored" =>
              found_asins = {scan.enc[i].asin : i \in 1..Len(scan.enc)}
        /\ Len(FoundRecords) = Len(scan.enc)
        /\ \A i \in 1..Len(scan.enc) :
              LET e == scan.enc[i]
              IN FoundRecords[i] =
                    Record(Keyword, e.asin, e.type, Num(e.page), Num(e.nth),
                           IF e.type = "Organic"
                           THEN Num((e.nth - e.pos) + (e.organic_nth - e.organic_before))
                           ELSE EMPTY)

\* the second keyword finds its target first on its page 1 after a first
\* keyword whose target was second on the page
C24_Witness ==
    /\ kwIdx = 2
    /\ \E i \in 1..Len(all_results) :
          /\ all_results[i].keyword = targets.keys[1]
          /\ all_results[i].rank = Num(2)
    /\ Len(FoundRecords) = 1
    /\ FoundRecords[1].rank = Num(1)

\* the program is sequential and every wait in it has a timeout: a step that
\* can be taken is taken
FairSpecRun == InitRun /\ [][Next]_vars /\ WF_vars(Next)

\* C25: a keyword scan processes at most MAX_PAGES pages; from SEARCHING it
\* leaves the page loop (DONE) and then completes, unless an exception ends
\* the whole run; the run ends
C25_ScansTerminate ==
    /\ [](Len(scan.pagesDone) <= MAX_PAGES)
    /\ pc = "SEARCHING" ~> (pc = "DONE" \/ pc = "EXIT_FATAL")
    /\ pc = "DONE" ~> pc = "COMPLETE"
    /\ <>(pc \in {"EXIT_OK", "EXIT_FATAL"})

C25_Witness ==
    /\ kwIdx = 2
    /\ scan.pagesDone = <<1, 2, 3>>
    /\ scan.path = "page_limit"
    /\ pc = "COMPLETE"

\* C28: at most one batch is written; it is written when the run ends after
\* the last keyword, holds every record of the run, and is written exactly
\* when there is a record
C28_OneBatchAtTheEnd ==
    /\ Len(saved) <= 1
    /\ saved # <<>> =>
          /\ pc = "EXIT_OK"
          /\ kwIdx = Len(targets.keys)
          /\ all_results # <<>>
          /\ saved = <<all_results>>
          /\ kw_results = <<>>
    /\ (pc = "EXIT_OK" /\ all_results # <<>>) => saved # <<>>

\* the batch of a run of two keywords holds records of both
C28_Witness ==
    /\ pc = "EXIT_OK"
    /\ kwIdx = 2
    /\ Len(saved) = 1
    /\ \E i, j \in 1..Len(saved[1]) :
          /\ saved[1][i].keyword = targets.keys[1]
          /\ saved[1][j].keyword = targets.keys[2]

\* the step on which the processing of a page raises
PageErrorStep == scan.path # "page_error" /\ scan'.path = "page_error"

\* C29: in the variants other than the refactored one, when the processing of
\* page p raises, no record and no offset change comes of it, the records and
\* the offset are those of the pages 1..p-1, and the page loop is left
C29_PageFailureAllOrNothing ==
    /\ [][(variant # "refactored" /\ PageErrorStep)
            => /\ all_results' = all_results
               /\ cumulative_offset' = cumulative_offset
               /\ page' = page
               /\ pc' = "DONE"]_vars
    /\ []((variant # "refactored" /\ scan.path = "page_error")
            => /\ pc \in {"DONE", "COMPLETE", "LOOP", "EXIT_OK"}
               /\ Len(scan.pagesDone) = page - 1
               /\ cumulative_offset = scan.seen
               /\ C1_OverallRank
               /\ \A i \in 1..Len(ScanRecords) : ScanRecords[i].page # Num(page))

C29_Witness ==
    /\ variant = "original"
    /\ scan.path = "page_error"
    /\ page = 2
    /\ Len(FoundRecords) = 1
    /\ FoundRecords[1].page = Num(1)
    /\ cumulative_offset = 2
    /\ pc = "COMPLETE"

\* the run is over after a list with at least one valid target was loaded
RunEnded == pc \in {"EXIT_OK", "EXIT_FATAL"} /\ targets.keys # <<>>

\* C13: whatever went wrong on a page or for a keyword, when the run is over
\* every keyword was taken and the records collected are in the output
C13_LocalErrorsDoNotAbort ==
    RunEnded =>
        /\ kwIdx = Len(targets.keys)
        /\ RunRecords # <<>> => saved = <<RunRecords>>

(***************************************************************************)
(* The classifier on its own: one element, one label cache                 *)
(***************************************************************************)
\* the sequences over S with at most n elements
RECURSIVE SeqsUpTo(_, _)
SeqsUpTo(S, n) ==
    IF n = 0 THEN {<<>>}
    ELSE SeqsUpTo(S, n - 1)
         \cup {Append(t, x) : t \in {u \in SeqsUpTo(S, n - 1) : Len(u) = n - 1}, x \in S}

CompTypes == {<<>>, S_search_result, S_sp_result, S_SP_Result}

BadgePool == {Badge(a, t) : a \in {<<>>, S_info, S_Sponsored},
                             t \in {<<>>, S_Sponsored, S_sponsor_ja}}

ItemYs == {0, 300}

HintYs == {100, 101, 500}

HintPool == {[y |-> hy, text |-> S_Sponsored] : hy \in HintYs}

Idle ==
    /\ site = "catalogue"
    /\ input = <<>>
    /\ targets = NoTargets
    /\ pc = "START"
    /\ kwIdx = 0
    /\ page = 0
    /\ cumulative_offset = 0
    /\ found_asins = {}
    /\ kw_results = <<>>
    /\ all_results = <<>>
    /\ saved = <<>>
    /\ scan = NoScan

InitClassify ==
    /\ Idle
    /\ variant = "refactored"
    /\ \E comp \in CompTypes, badges \in SeqsUpTo(BadgePool, MaxBadges),
          y \in ItemYs, cache \in SeqsUpTo(HintPool, MaxHints) :
          fn = [op |-> "classify",
                el |-> El(<<"A">>, TRUE, 0, y, 300, 300, comp, badges, S_info),
                cache |-> cache, out |-> "none"]

\* get_item_type is applied to the element
Classify ==
    /\ fn.op = "classify"
    /\ fn.out = "none"
    /\ fn' = [fn EXCEPT !.out = get_item_type(fn.el, fn.cache)]
    /\ UNCHANGED <<site, variant, input, targets, pc, kwIdx, page, cumulative_offset,
                   found_asins, kw_results, all_results, saved, scan>>

NextClassify == Classify

SpecClassify == InitClassify /\ [][NextClassify]_vars

Classified == fn.op = "classify" /\ fn.out # "none"

\* C7: the placement is Sponsored exactly when the component type contains the
\* sponsored marker whatever its case, or the label of a nested badge (its
\* aria-label, else its text) contains 'sponsored' in any case or 'スポンサー',
\* or a cached hint is less than the proximity threshold away from the item's
\* y; it is Organic in every other case
C7_CascadeOrganicDefault ==
    Classified =>
        LET Part(s, i, n) == IF i + n - 1 <= Len(s) THEN SubSeq(s, i, i + n - 1)
                             ELSE <<>>
            direct == \E i \in 1..Len(fn.el.comp) :
                         lower(Part(fn.el.comp, i, 9)) = S_sponsored
            badge == \E b \in Range(fn.el.badges) :
                        LET label == IF b.aria = <<>> THEN b.text ELSE b.aria
                        IN \E i \in 1..Len(label) :
                              \/ lower(Part(label, i, 9)) = S_sponsored
                              \/ Part(label, i, 5) = S_sponsor_ja
            near == \E h \in Range(fn.cache) :
                       /\ h.y - fn.el.y < SPONSORED_PROXIMITY_THRESHOLD
                       /\ fn.el.y - h.y < SPONSORED_PROXIMITY_THRESHOLD
        IN /\ fn.out \in {"Sponsored", "Organic"}
           /\ fn.out = "Sponsored" <=> (direct \/ badge \/ near)

\* an upper-case badge alone decides, with a hint exactly at the threshold
C7_Witness ==
    /\ Classified
    /\ fn.out = "Sponsored"
    /\ fn.el.comp = S_search_result
    /\ fn.el.badges = <<Badge(<<>>, S_Sponsored)>>
    /\ fn.el.y = 300
    /\ fn.cache = <<[y |-> 100, text |-> S_Sponsored]>>

\* C27: an element without sponsored component type and without badge is
\* Sponsored exactly when some cached label is less than 200px above or below
\* it; a label exactly 200px away does not count, and without labels it is
\* Organic
C27_StrictSymmetricProximity ==
    (Classified /\ fn.el.comp \in {<<>>, S_search_result} /\ fn.el.badges = <<>>) =>
        LET close == \E i \in 1..Len(fn.cache) :
                        /\ fn.cache[i].y - fn.el.y < 200
                        /\ fn.el.y - fn.cache[i].y < 200
        IN /\ fn.out = (IF close THEN "Sponsored" ELSE "Organic")
           /\ fn.cache = <<>> => fn.out = "Organic"

\* a label exactly 200px above and one exactly 200px below: Organic
C27_Witness ==
    /\ Classified
    /\ fn.el.comp = S_search_result
    /\ fn.el.badges = <<>>
    /\ fn.el.y = 300
    /\ Len(fn.cache) = 2
    /\ fn.cache[1].y = 100
    /\ fn.cache[2].y = 500
    /\ fn.out = "Organic"

(***************************************************************************)
(* The page step on its own: one snapshot, one variant                     *)
(***************************************************************************)
Card(asin, displayed, x, y, w, h) ==
    El(asin, displayed, x, y, w, h, S_search_result, <<>>, S_info)

GridXs == {0, 49, 50}
GridYs == {0, 50}

CandPool ==
    {Card(<<"a">>, TRUE, x, y, 300, 300) : x \in GridXs, y \in GridYs}
    \cup {Card(<<"B">>, TRUE, 0, 0, 300, 300),
          Card(<<" ">>, TRUE, 0, 0, 300, 300),
          Card(<<>>, TRUE, 0, 50, 300, 300),
          Card(<<"B">>, FALSE, 0, 0, 300, 300),
          Card(<<"a">>, TRUE, 200, 200, 60, 60)}

PageLabels == <<LabelEl(200, S_Sponsored, TRUE)>>

PageTargets == {<<"A">>, <<"B">>}
PageKeyword == <<"k", "1">>
PageNo == 2
PageOffset == 7

\* a parsed HTML document carries no rendering: its elements count as displayed
Renderable(v, els) == v = "cloud" => \A i \in 1..Len(els) : els[i].displayed

\* only the refactored process_page looks for the main slot
ReadsMainSlot(v, ms) == v # "refactored" => ms.found

PageOut(v, snap) ==
    LET items == PageItems(v, snap)
        out == PageStep(v, items, PageKeyword, PageNo, PageTargets, PageOffset)
    IN [valid |-> CASE v = "refactored" ->
                         SortByYX(valid_items_refactored(snap.elements, snap.main_slot))
                    [] v = "original" -> SortByYX(valid_items_original(snap.elements))
                    [] OTHER -> MapItem(items_bs4(snap.elements)),
        unique |-> CASE v = "refactored" -> unique_items_refactored(snap)
                     [] v = "original" -> unique_items_original(snap)
                     [] OTHER -> MapItem(items_bs4(snap.elements)),
        items |-> items, results |-> out.results, offset |-> out.offset]

InitPage ==
    /\ Idle
    /\ variant \in Variants
    /\ \E els \in SeqsUpTo(CandPool, MaxCand), ms \in MainSlots :
          /\ Renderable(variant, els)
          /\ ReadsMainSlot(variant, ms)
          /\ fn = [op |-> "page_in",
                   snap |-> [elements |-> els, labels |-> PageLabels,
                             main_slot |-> ms]]

\* the page step is applied to the snapshot
ApplyPage ==
    /\ fn.op = "page_in"
    /\ fn' = [op |-> "page_out", snap |-> fn.snap, out |-> PageOut(variant, fn.snap)]
    /\ UNCHANGED <<site, variant, input, targets, pc, kwIdx, page, cumulative_offset,
                   found_asins, kw_results, all_results, saved, scan>>

NextPage == ApplyPage

SpecPage == InitPage /\ [][NextPage]_vars

PageDone == fn.op = "page_out"

\* C8 as stated: two survivors of the deduplication with the same identifier
\* lie more than the tolerance apart in at least one axis
C8_SurvivorsBeyondTolerance ==
    (PageDone /\ variant # "cloud") =>
        \A i, j \in 1..Len(fn.out.unique) :
            (i # j /\ fn.out.unique[i].asin = fn.out.unique[j].asin)
                => \/ Abs(fn.out.unique[i].x - fn.out.unique[j].x) > DEDUP_TOLERANCE
                   \/ Abs(fn.out.unique[i].y - fn.out.unique[j].y) > DEDUP_TOLERANCE

\* C8 amended: two survivors of the deduplication with the same identifier lie
\* at least the tolerance apart in at least one axis, adjacent or not
C8_SurvivorsAtLeastTolerance ==
    (PageDone /\ variant # "cloud") =>
        \A i, j \in 1..Len(fn.out.unique) :
            (i # j /\ fn.out.unique[i].asin = fn.out.unique[j].asin)
                => \/ Abs(fn.out.unique[i].x - fn.out.unique[j].x) >= DEDUP_TOLERANCE
                   \/ Abs(fn.out.unique[i].y - fn.out.unique[j].y) >= DEDUP_TOLERANCE

\* three candidates of one identifier, of which two survive, 50px apart in x
C8_Witness ==
    /\ PageDone
    /\ variant # "cloud"
    /\ Len(fn.out.valid) = 3
    /\ Len(fn.out.unique) = 2
    /\ fn.out.valid[1].asin = <<"A">>
    /\ fn.out.valid[2].asin = <<"A">>
    /\ fn.out.valid[3].asin = <<"A">>
    /\ fn.out.unique[1].x = 0
    /\ fn.out.unique[2].x = 50

\* the snapshot without the elements that have a blank identifier or are not
\* displayed
Visible(snap) ==
    [snap EXCEPT !.elements =
        SelectSeq(snap.elements, LAMBDA el : strip(el.asin) # <<>> /\ el.displayed)]

ReadsBefore(a, b) == a.y < b.y \/ (a.y = b.y /\ a.x < b.x)

\* the positions on the page of the surviving items that are targets
TargetPositions ==
    SelectSeq([i \in 1..Len(fn.out.unique) |-> i],
              LAMBDA i : fn.out.unique[i].asin \in PageTargets)

\* C22: of two surviving items the one that comes first in reading order
\* (smaller y, then smaller x) has the smaller position on the page, and the
\* overall rank of a record is the offset plus that position
C22_ReadingOrder ==
    (PageDone /\ variant # "cloud") =>
        /\ \A i, j \in 1..Len(fn.out.unique) :
              ReadsBefore(fn.out.unique[i], fn.out.unique[j]) => i < j
        /\ Len(fn.out.results) = Len(TargetPositions)
        /\ \A k \in 1..Len(TargetPositions) :
              fn.out.results[k].rank = Num(PageOffset + TargetPositions[k])

\* the page lists a card of the second row, then one of the first row to the
\* right, then the first card of the first row
C22_Witness ==
    /\ PageDone
    /\ variant # "cloud"
    /\ Len(fn.snap.elements) = 3
    /\ fn.snap.elements[1].y = 50 /\ fn.snap.elements[1].x = 0
    /\ fn.snap.elements[2].y = 0 /\ fn.snap.elements[2].x = 50
    /\ fn.snap.elements[3].y = 0 /\ fn.snap.elements[3].x = 0
    /\ Len(fn.out.unique) = 3
    /\ fn.out.unique[1].element = fn.snap.elements[3]
    /\ fn.out.unique[2].element = fn.snap.elements[2]
    /\ fn.out.unique[3].element = fn.snap.elements[1]
    /\ Len(fn.out.results) = 3
    /\ fn.out.results[3].rank = Num(PageOffset + 3)

\* u is v with some elements left out
RECURSIVE IsSubSeq(_, _)
IsSubSeq(u, v) ==
    IF u = <<>> THEN TRUE
    ELSE IF v = <<>> THEN FALSE
    ELSE IF Head(u) = Head(v) THEN IsSubSeq(Tail(u), Tail(v))
    ELSE IsSubSeq(u, Tail(v))

\* a and b lie within the tolerance of each other on both axes
Near(a, b) ==
    /\ Abs(a.x - b.x) < DEDUP_TOLERANCE
    /\ Abs(a.y - b.y) < DEDUP_TOLERANCE

SameNear(a, b) == a.asin = b.asin /\ Near(a, b)

\* C26: the survivors are the sorted candidates with some left out; a
\* candidate with no earlier candidate of its identifier within the tolerance
\* survives, so the first of a group does; a candidate that is left out has a
\* survivor of its identifier within the tolerance on both axes before it
C26_FirstSeenKept ==
    (PageDone /\ variant # "cloud") =>
        LET valid == fn.out.valid
            unique == fn.out.unique
            Survives(i) == \E k \in 1..Len(unique) : unique[k] = valid[i]
        IN /\ IsSubSeq(unique, valid)
           /\ valid # <<>> => (unique # <<>> /\ unique[1] = valid[1])
           /\ \A i \in 1..Len(valid) :
                 (\A j \in 1..(i - 1) : ~SameNear(valid[j], valid[i])) => Survives(i)
           /\ \A i \in 1..Len(valid) :
                 ~Survives(i) =>
                    \E j \in 1..(i - 1) : Survives(j) /\ SameNear(valid[j], valid[i])

\* three cards of one identifier in a row at x = 0, 49, 50: the second is
\* left out for the first, the third survives though the second is 1px away
C26_Witness ==
    /\ PageDone
    /\ variant # "cloud"
    /\ Len(fn.out.valid) = 3
    /\ \A i \in 1..3 : fn.out.valid[i].y = 0 /\ fn.out.valid[i].asin = <<"A">>
    /\ fn.out.valid[2].x = 49
    /\ fn.out.valid[3].x = 50
    /\ fn.out.unique = <<fn.out.valid[1], fn.out.valid[3]>>

(***************************************************************************)
(* The filter of the Selenium variants on cards of several sizes and       *)
(* columns                                                                 *)
(***************************************************************************)
FilterPool ==
    {Card(<<"a">>, TRUE, 0, 0, 300, 300),
     Card(<<"B">>, TRUE, 400, 0, 300, 300),
     Card(<<"a">>, TRUE, 0, 400, 60, 300),
     Card(<<"B">>, TRUE, 400, 400, 300, 10),
     Card(<<"a">>, TRUE, 800, 0, 40, 40),
     Card(<<"B">>, TRUE, 2100, 0, 300, 300),
     Card(<<"a">>, TRUE, -10, 400, 300, 300)}

InitFilter ==
    /\ Idle
    /\ variant \in {"refactored", "original"}
    /\ \E els \in SeqsUpTo(FilterPool, MaxCand), ms \in MainSlots :
          fn = [op |-> "page_in",
                snap |-> [elements |-> els, labels |-> PageLabels, main_slot |-> ms]]

SpecFilter == InitFilter /\ [][NextPage]_vars

\* the minimum-size threshold of a variant
MinSize(v) == IF v = "refactored" THEN MIN_WIDTH_REFACTORED ELSE MIN_SIZE_ORIGINAL

\* C18: no survivor of the filter is narrower than the minimum size and none
\* is lower than it
C18_NoSurvivorUnderMinSize ==
    PageDone =>
        \A i \in 1..Len(fn.out.valid) :
            /\ fn.out.valid[i].element.w >= MinSize(variant)
            /\ fn.out.valid[i].element.h >= MinSize(variant)

\* the filter of variant v without its rule on the column
valid_items_any_column(v, elements) ==
    IF v = "refactored"
    THEN MapItem(SelectSeq(elements,
                    LAMBDA el : KeepRefactored(el, [left |-> el.x, right |-> el.x])))
    ELSE valid_items_original(elements)

\* C19: when the main container is not found the filtered list is the one of
\* the filter without the column rule: no item is dropped for its x
C19_UnboundedColumnFallback ==
    (PageDone /\ ~fn.snap.main_slot.found) =>
        fn.out.valid = SortByYX(valid_items_any_column(variant, fn.snap.elements))

(***************************************************************************)
(* One page of a Selenium scan, step by step: what is read from the page   *)
(* and what changes its layout (scroll to the bottom, window resize)       *)
(***************************************************************************)
\* by how much a scroll to the bottom or a resize can move the cards down
Reflows == {0, 300}

LayoutLabelYs == {100, 400, 700}
LayoutItemYs == {0, 300}

InitLayout ==
    /\ Idle
    /\ variant \in {"refactored", "original"}
    /\ \E shots \in BOOLEAN, ly \in LayoutLabelYs, iy \in LayoutItemYs :
          fn = [op |-> "layout", take_shots |-> shots, step |-> "results",
                label_y |-> ly, item_y |-> iy, shift |-> 0, changes |-> <<>>,
                captures |-> 0, captured_after |-> <<>>, cache |-> <<>>,
                read_after |-> <<>>, item |-> <<>>, out |-> "none"]

LayoutUnchanged ==
    UNCHANGED <<site, variant, input, targets, pc, kwIdx, page, cumulative_offset,
                found_asins, kw_results, all_results, saved, scan>>

\* main of the original variant scrolls to the bottom after wait_for_results
LazyLoadScroll ==
    /\ fn.op = "layout"
    /\ variant = "original"
    /\ fn.step = "results"
    /\ \E d \in Reflows :
          fn' = [fn EXCEPT !.step = "scrolled", !.shift = @ + d,
                           !.changes = Append(@, "scroll")]
    /\ LayoutUnchanged

\* process_page caches the positions of the sponsored labels
CaptureLabels ==
    /\ fn.op = "layout"
    /\ fn.step = IF variant = "original" THEN "scrolled" ELSE "results"
    /\ LET labels == <<LabelEl(fn.label_y + fn.shift, S_Sponsored, TRUE)>>
       IN fn' = [fn EXCEPT !.step = "captured",
                           !.captures = @ + 1,
                           !.captured_after = fn.changes,
                           !.cache = IF variant = "original"
                                     THEN label_cache_original(labels)
                                     ELSE label_cache_refactored(labels)]
    /\ LayoutUnchanged

\* take_screenshot: scroll to the bottom, then resize the window
TakeScreenshot ==
    /\ fn.op = "layout"
    /\ fn.step = "captured"
    /\ fn.take_shots
    /\ \E d \in Reflows :
          fn' = [fn EXCEPT !.step = "shot", !.shift = @ + d,
                           !.changes = @ \o <<"scroll", "resize">>]
    /\ LayoutUnchanged

\* the result elements are found and their rect read
ReadItems ==
    /\ fn.op = "layout"
    /\ fn.step = IF fn.take_shots THEN "shot" ELSE "captured"
    /\ fn' = [fn EXCEPT !.step = "read",
                        !.read_after = fn.changes,
                        !.item = El(<<"A">>, TRUE, 0, fn.item_y + fn.shift, 300, 300,
                                    S_search_result, <<>>, S_info)]
    /\ LayoutUnchanged

\* the item is classified against the cached labels
ClassifyItems ==
    /\ fn.op = "layout"
    /\ fn.step = "read"
    /\ fn' = [fn EXCEPT !.step = "done", !.out = get_item_type(fn.item, fn.cache)]
    /\ LayoutUnchanged

NextLayout ==
    \/ LazyLoadScroll
    \/ CaptureLabels
    \/ TakeScreenshot
    \/ ReadItems
    \/ ClassifyItems

SpecLayout == InitLayout /\ [][NextLayout]_vars

\* C17: when the items of a page are classified the labels were captured once,
\* before any scroll or resize on that page, and the item positions were read
\* from that same layout
C17_HintsFromUnchangedLayout ==
    (fn.op = "layout" /\ fn.step = "done")
        => /\ fn.captures = 1
           /\ fn.captured_after = <<>>
           /\ fn.read_after = fn.captured_after

(***************************************************************************)
(* Identifiers as written in the input list and on the page                *)
(***************************************************************************)
RawRowIds == {<<"a", " ">>, <<"A">>, <<" ", "b">>, <<"B">>}
RawPageIds == {<<" ", "a", " ">>, <<"A">>, <<"b">>}
MatchXs == {0, 10, 400}

\* the identifier each spelling stands for
NormOf(raw) ==
    IF raw \in {<<"a", " ">>, <<"A">>, <<" ", "a", " ">>} THEN <<"A">> ELSE <<"B">>

MatchPool == {Card(raw, TRUE, x, 0, 300, 300) : raw \in RawPageIds, x \in MatchXs}

MatchOut(v, rows, snap) ==
    LET loaded == load_targets(rows)
        keyword == loaded.keys[1]
        out == PageStep(v, PageItems(v, snap), keyword, PageNo,
                        loaded.sets[keyword], PageOffset)
    IN [valid |-> PageOut(v, snap).valid,
        unique |-> PageOut(v, snap).unique,
        results |-> out.results]

InitMatch ==
    /\ Idle
    /\ variant \in Variants
    /\ \E raw \in RawRowIds, els \in SeqsUpTo(MatchPool, MaxItems) :
          fn = [op |-> "match_in",
                rows |-> <<Row(raw, PageKeyword, <<>>)>>,
                snap |-> [elements |-> els, labels |-> <<>>,
                          main_slot |-> [found |-> TRUE, x |-> 0, width |-> 1500]]]

\* the list is loaded and the page step applied to the snapshot
ApplyMatch ==
    /\ fn.op = "match_in"
    /\ fn' = [op |-> "match_out", rows |-> fn.rows, snap |-> fn.snap,
              out |-> MatchOut(variant, fn.rows, fn.snap)]
    /\ LayoutUnchanged

NextMatch == ApplyMatch

SpecMatch == InitMatch /\ [][NextMatch]_vars

\* C21: the records of a page are those of the surviving items whose
\* identifier, trimmed and upper-cased, is the trimmed and upper-cased
\* identifier of the input row; two items within the tolerance are one item
\* exactly when their identifiers are equal after trimming and upper-casing
C21_MatchOnNormalisedIds ==
    fn.op = "match_out" =>
        LET target == NormOf(fn.rows[1].ASIN)
            ids == [i \in 1..Len(fn.out.unique) |-> NormOf(fn.out.unique[i].element.asin)]
            hits == SelectSeq(ids, LAMBDA id : id = target)
        IN /\ Len(fn.out.results) = Len(hits)
           /\ \A i \in 1..Len(hits) : fn.out.results[i].asin = target
           /\ variant # "cloud" =>
                /\ \A i, j \in 1..Len(fn.out.unique) :
                      (i # j /\ Near(fn.out.unique[i], fn.out.unique[j]))
                          => ids[i] # ids[j]
                /\ \A i \in 1..Len(fn.out.valid) :
                      \E j \in 1..Len(fn.out.unique) :
                          /\ ids[j] = NormOf(fn.out.valid[i].element.asin)
                          /\ Near(fn.out.valid[i], fn.out.unique[j])

\* the row says "a ", the page " a " and "A" 10px apart: one item, one record
C21_Witness ==
    /\ fn.op = "match_out"
    /\ variant # "cloud"
    /\ fn.rows[1].ASIN = <<"a", " ">>
    /\ Len(fn.out.valid) = 2
    /\ fn.out.valid[1].element.asin = <<" ", "a", " ">>
    /\ fn.out.valid[2].element.asin = <<"A">>
    /\ Len(fn.out.unique) = 1
    /\ Len(fn.out.results) = 1

====
